---- MODULE Spec2Model ----
(***************************************************************************)
(* MotionGen (Bolenbrock/genimag): the top-level orchestration state of    *)
(* App.tsx (seed image, displayed sequence, status, the generate, upscale  *)
(* and export operations and their in-flight requests), the aspect-ratio   *)
(* snapping of getClosestAspectRatio, and the AnimationPlayer component.   *)
(***************************************************************************)
EXTENDS Integers, Sequences, FiniteSets, TLC

\* App.tsx:11 (const TOTAL_FRAMES = 10). The model runs the same code with a
\* batch of 2 requests, the smallest batch whose requests can complete out of
\* order; the handlers never depend on the value itself.
TOTAL_FRAMES == 2
\* Number of handler invocations (generate, upscale, export) in one behaviour.
MaxOps == 2
\* Largest width and height of an image handed to getClosestAspectRatio.
MaxDim == 16
\* Largest number of generated frames in a sequence handed to the archive
\* export (the TOTAL_FRAMES of the source).
MaxGenerated == 10

\* The images the user uploads (part_001:27-30 hands each to handleImageSelect
\* as a data URL); two are enough to tell an older seed from the current one.
Seeds == {"imageA", "imageB"}
\* Invocations are numbered from 1; SpecBatches, which runs one invocation
\* more, numbers them from 0.
OpIds == 0..MaxOps

NoImage == "null"
NoError == "none"
GenerateError == "Failed to generate frames. Please try again or use a different image."
UpscaleAlert == "Upscale failed. Please check your API key quotas or try again."
NoVideoAlert == "Video recording not supported on this browser. Please try downloading frames as ZIP."
VideoAlert == "Failed to create video."
ZipAlert == "Failed to create ZIP archive."
\* App.tsx:25-26: the initial description and direction; the user can type
\* another description (329) and pick another direction (347)
InitialDescription == "The main subject is moving"
InitialDirection == "Right"
Descriptions == {InitialDescription, "The main subject is jumping"}
Directions == {InitialDirection, "Left"}

VARIABLES
    originalImage,     \* App.tsx:23  NoImage or the seed image
    generatedFrames,   \* App.tsx:24  the displayed sequence
    status,            \* App.tsx:27  GenerationStatus
    isDownloading,     \* App.tsx:32
    isUpscaling,       \* App.tsx:33
    alerts,            \* the messages shown with window.alert, in order
    ops,               \* the async invocations of the handlers, by id
    nextOp,            \* id of the next invocation
    player,            \* part_000:10-11  the state of the mounted AnimationPlayer
    probe,             \* App.tsx:102-120 an image handed to getClosestAspectRatio
    archive,           \* App.tsx:243-250 a sequence handed to the archive export
    promptDescription, \* App.tsx:25
    selectedDirection, \* App.tsx:26
    launch             \* the calls of generateMotionFrame made so far, by invocation

vars == <<originalImage, generatedFrames, status, isDownloading, isUpscaling,
          alerts, ops, nextOp, player, probe, archive,
          promptDescription, selectedDirection, launch>>

\* what the handlers of App never write
aux == <<player, probe, archive, promptDescription, selectedDirection, launch>>

----------------------------------------------------------------------------
\* Frames are opaque payloads; the model names them by where they came from.
SeedFrame(s) == <<"seed", s>>
\* what generateMotionFrame resolves to for request i of invocation o
GeneratedFrame(o, i) == <<"gen", o, i>>
\* what upscaleFrame resolves to for request i (on frame f) of invocation o
UpscaledFrame(o, i, f) == <<"up", o, i, f>>

InitialStatus ==
    [isGenerating |-> FALSE, completedFrames |-> 0,
     totalFrames |-> TOTAL_FRAMES, error |-> NoError]

NoOp ==
    [kind |-> "none", stage |-> "done", seed |-> NoImage, frames |-> <<>>,
     req |-> <<>>, order |-> <<>>, rejected |-> FALSE,
     mimeType |-> "", recorder |-> "none", drawn |-> <<>>,
     description |-> "", direction |-> ""]

\* no call of generateMotionFrame has been made
NoLaunch == [o \in OpIds |-> <<>>]

\* part_000:10-11: useState(0), useState(false); no interval yet
NoPlayer ==
    [currentIndex |-> 0, isPlaying |-> FALSE, interval |-> 0,
     effects |-> "none", last |-> "none", wasPlaying |-> FALSE,
     wasIndex |-> 0, timers |-> 0]

NoProbe == [width |-> 0, height |-> 0, label |-> ""]

NoArchive == [files |-> <<>>, frames |-> <<>>, entries |-> <<>>, built |-> FALSE]

Init ==
    /\ originalImage = NoImage
    /\ generatedFrames = <<>>
    /\ status = InitialStatus
    /\ isDownloading = FALSE
    /\ isUpscaling = FALSE
    /\ alerts = <<>>
    /\ ops = [o \in OpIds |-> NoOp]
    /\ nextOp = 1
    /\ player = NoPlayer
    /\ probe = NoProbe
    /\ archive = NoArchive
    /\ promptDescription = InitialDescription
    /\ selectedDirection = InitialDirection
    /\ launch = NoLaunch

----------------------------------------------------------------------------
\* Mutant of PromiseAllResults: the results are collected as the requests
\* complete and numbered by arrival.
PromiseAllResultsByArrival(o, op) ==
    [k \in 1..Len(op.order) |->
        [index |-> k,
         frame |-> IF op.kind = "gen" THEN GeneratedFrame(o, op.order[k])
                   ELSE UpscaledFrame(o, op.order[k] - 1, op.frames[op.order[k]])]]

\* Promise.all(promises): the array of the fulfilled values in the order of
\* the promises, which is the order of the loop that built them.
PromiseAllResults(o, op) ==
    [k \in 1..Len(op.req) |->
        [index |-> k,
         frame |-> IF op.kind = "gen" THEN GeneratedFrame(o, k)
                   ELSE UpscaledFrame(o, k - 1, op.frames[k])]]

\* Mutant of InsertByIndex: the comparator is b.index - a.index.
RECURSIVE InsertByIndexDescending(_, _)
InsertByIndexDescending(sorted, item) ==
    IF sorted = <<>> THEN <<item>>
    ELSE IF item.index > Head(sorted).index THEN <<item>> \o sorted
    ELSE <<Head(sorted)>> \o InsertByIndexDescending(Tail(sorted), item)

\* results.sort((a, b) => a.index - b.index): insertion of each element
\* before the first element with a larger index (a stable sort).
RECURSIVE InsertByIndex(_, _)
InsertByIndex(sorted, item) ==
    IF sorted = <<>> THEN <<item>>
    ELSE IF item.index < Head(sorted).index THEN <<item>> \o sorted
    ELSE <<Head(sorted)>> \o InsertByIndex(Tail(sorted), item)

RECURSIVE SortByIndex(_)
SortByIndex(results) ==
    IF results = <<>> THEN <<>>
    ELSE InsertByIndex(SortByIndex(Tail(results)), Head(results))

\* .sort(...).map(item => item.frame)
SortedFrames(results) ==
    LET sorted == SortByIndex(results)
    IN [k \in 1..Len(sorted) |-> sorted[k].frame]

AllFulfilled(req) == \A k \in 1..Len(req) : req[k] = "ok"

\* A request of a batch that has not settled yet: the promise built at
\* App.tsx:60-68 (147-153 for an upscale), delay and service call together.
Pending(op, k) ==
    /\ op.stage \in {"batch", "done"}
    /\ k \in 1..Len(op.req)
    /\ op.req[k] = "pending"

----------------------------------------------------------------------------
\* Mutant of handleImageSelect: the status is reset by spreading the previous
\* one, which keeps its error.
handleImageSelectKeepsError(base64) ==
    /\ originalImage' = base64
    /\ generatedFrames' = <<>>
    /\ status' = [status EXCEPT !.isGenerating = FALSE, !.completedFrames = 0,
                                !.totalFrames = TOTAL_FRAMES]
    /\ UNCHANGED <<isDownloading, isUpscaling, alerts, ops, nextOp>>
    /\ UNCHANGED aux

\* App.tsx:35-40
handleImageSelect(base64) ==
    /\ originalImage' = base64
    /\ generatedFrames' = <<>>
    /\ status' = InitialStatus
    /\ UNCHANGED <<isDownloading, isUpscaling, alerts, ops, nextOp>>
    /\ UNCHANGED aux

\* App.tsx:365-369: the Generate button
GenerateEnabled ==
    /\ originalImage # NoImage
    /\ ~status.isGenerating
    /\ ~isUpscaling

\* App.tsx:42-71: the synchronous part of handleGenerate, up to the await.
\* The record keeps the seed, description and direction captured by the
\* closure and, as frames, the sequence that was displayed when the handler
\* was invoked.
handleGenerateRuns ==
    /\ nextOp <= MaxOps
    /\ status' = [isGenerating |-> TRUE, completedFrames |-> 0,
                  totalFrames |-> TOTAL_FRAMES, error |-> NoError]
    /\ generatedFrames' = <<>>
    /\ ops' = [ops EXCEPT ![nextOp] =
                  [NoOp EXCEPT !.kind = "gen", !.stage = "batch",
                               !.seed = originalImage,
                               !.description = promptDescription,
                               !.direction = selectedDirection,
                               !.frames = generatedFrames,
                               !.req = [k \in 1..TOTAL_FRAMES |-> "pending"]]]
    /\ nextOp' = nextOp + 1
    /\ UNCHANGED <<originalImage, isDownloading, isUpscaling, alerts>>
    /\ UNCHANGED aux

\* App.tsx:365-369 and 42-71: handleGenerate invoked by the Generate button
handleGenerate ==
    /\ GenerateEnabled
    /\ handleGenerateRuns

\* Mutant of GenerateRequestSucceeded: the completion is not counted.
GenerateRequestSucceededUncounted(o, i) ==
    /\ ops[o].kind = "gen"
    /\ Pending(ops[o], i)
    /\ LET req == [ops[o].req EXCEPT ![i] = "ok"]
           op == [ops[o] EXCEPT !.req = req, !.order = Append(@, i)]
       IN IF AllFulfilled(req)
          THEN /\ generatedFrames' =
                     <<SeedFrame(op.seed)>> \o SortedFrames(PromiseAllResults(o, op))
               /\ status' = [status EXCEPT !.isGenerating = FALSE]
               /\ ops' = [ops EXCEPT ![o] = [op EXCEPT !.stage = "done"]]
          ELSE /\ generatedFrames' = generatedFrames
               /\ status' = status
               /\ ops' = [ops EXCEPT ![o] = op]
    /\ UNCHANGED <<originalImage, isDownloading, isUpscaling, alerts, nextOp>>
    /\ UNCHANGED aux

\* App.tsx:63-66 and, when it was the last one, 71-80
GenerateRequestSucceeded(o, i) ==
    /\ ops[o].kind = "gen"
    /\ Pending(ops[o], i)
    /\ LET req == [ops[o].req EXCEPT ![i] = "ok"]
           op == [ops[o] EXCEPT !.req = req, !.order = Append(@, i)]
           counted == [status EXCEPT !.completedFrames = @ + 1]
       IN IF AllFulfilled(req)
          THEN /\ generatedFrames' =
                     <<SeedFrame(op.seed)>> \o SortedFrames(PromiseAllResults(o, op))
               /\ status' = [counted EXCEPT !.isGenerating = FALSE]
               /\ ops' = [ops EXCEPT ![o] = [op EXCEPT !.stage = "done"]]
          ELSE /\ generatedFrames' = generatedFrames
               /\ status' = counted
               /\ ops' = [ops EXCEPT ![o] = op]
    /\ UNCHANGED <<originalImage, isDownloading, isUpscaling, alerts, nextOp>>
    /\ UNCHANGED aux

\* Mutant of GenerateRequestFailed: the catch clears the flag but records no
\* error.
GenerateRequestFailedSilently(o, i) ==
    /\ ops[o].kind = "gen"
    /\ Pending(ops[o], i)
    /\ ops' = [ops EXCEPT ![o].req[i] = "fail", ![o].rejected = TRUE,
                          ![o].stage = "done"]
    /\ status' = IF ops[o].rejected THEN status
                 ELSE [status EXCEPT !.isGenerating = FALSE]
    /\ UNCHANGED <<originalImage, generatedFrames, isDownloading, isUpscaling,
                   alerts, nextOp>>
    /\ UNCHANGED aux

\* generateMotionFrame throws (part_000:232-235); Promise.all rejects at the
\* first rejection and the catch of App.tsx:82-89 runs once
GenerateRequestFailed(o, i) ==
    /\ ops[o].kind = "gen"
    /\ Pending(ops[o], i)
    /\ ops' = [ops EXCEPT ![o].req[i] = "fail", ![o].rejected = TRUE,
                          ![o].stage = "done"]
    /\ status' = IF ops[o].rejected THEN status
                 ELSE [status EXCEPT !.isGenerating = FALSE,
                                     !.error = GenerateError]
    /\ UNCHANGED <<originalImage, generatedFrames, isDownloading, isUpscaling,
                   alerts, nextOp>>
    /\ UNCHANGED aux

----------------------------------------------------------------------------
\* App.tsx:402-430: the Upscale, Download Video and Download ZIP buttons are
\* rendered only with a non-empty sequence (App.tsx:397)
ResultButtonsEnabled ==
    /\ Len(generatedFrames) > 0
    /\ ~isDownloading
    /\ ~isUpscaling
    /\ ~status.isGenerating

\* App.tsx:139-140, then the await of getClosestAspectRatio at 144
BeginUpscale(o, op) ==
    /\ isUpscaling' = TRUE
    /\ status' = [status EXCEPT !.completedFrames = 0,
                                !.totalFrames = Len(op.frames)]
    /\ ops' = [ops EXCEPT ![o] = [op EXCEPT !.stage = "probe"]]

\* Mutant of FinallyUpscale: the upscale reports through the status as the
\* generation does.
FinallyUpscaleSetsError ==
    /\ isUpscaling' = FALSE
    /\ status' = [status EXCEPT !.isGenerating = FALSE, !.error = UpscaleAlert]

\* App.tsx:165-168
FinallyUpscale ==
    /\ isUpscaling' = FALSE
    /\ status' = [status EXCEPT !.isGenerating = FALSE]

\* App.tsx:122-128: handleUpscale up to its first await; aistudio tells
\* whether window.aistudio.hasSelectedApiKey exists. The record keeps the
\* frames captured by the closure and the seed current at the click.
handleUpscaleRuns(aistudio) ==
    /\ nextOp <= MaxOps
    /\ nextOp' = nextOp + 1
    /\ LET op == [NoOp EXCEPT !.kind = "up", !.seed = originalImage,
                             !.frames = generatedFrames]
       IN IF aistudio
          THEN /\ ops' = [ops EXCEPT ![nextOp] = [op EXCEPT !.stage = "hasKey"]]
               /\ UNCHANGED <<status, isUpscaling>>
          ELSE BeginUpscale(nextOp, op)
    /\ UNCHANGED <<originalImage, generatedFrames, isDownloading, alerts>>
    /\ UNCHANGED aux

\* App.tsx:402-404 and 122-140: handleUpscale invoked by the upscale button
handleUpscale(aistudio) ==
    /\ ResultButtonsEnabled
    /\ handleUpscaleRuns(aistudio)

\* App.tsx:127-130: hasSelectedApiKey() resolved with hasKey; canOpen tells
\* whether window.aistudio.openSelectKey exists
UpscaleKeyChecked(o, hasKey, canOpen) ==
    /\ ops[o].kind = "up"
    /\ ops[o].stage = "hasKey"
    /\ IF ~hasKey /\ canOpen
       THEN /\ ops' = [ops EXCEPT ![o].stage = "selectKey"]
            /\ UNCHANGED <<status, isUpscaling>>
       ELSE BeginUpscale(o, ops[o])
    /\ UNCHANGED <<originalImage, generatedFrames, isDownloading, alerts, nextOp>>
    /\ UNCHANGED aux

\* App.tsx:130-131: openSelectKey() resolved
UpscaleKeySelected(o) ==
    /\ ops[o].kind = "up"
    /\ ops[o].stage = "selectKey"
    /\ BeginUpscale(o, ops[o])
    /\ UNCHANGED <<originalImage, generatedFrames, isDownloading, alerts, nextOp>>
    /\ UNCHANGED aux

\* Mutant of UpscaleKeySelectFailed: the catch does not return.
UpscaleKeySelectFailedProceeds(o) ==
    /\ ops[o].kind = "up"
    /\ ops[o].stage = "selectKey"
    /\ BeginUpscale(o, ops[o])
    /\ UNCHANGED <<originalImage, generatedFrames, isDownloading, alerts, nextOp>>
    /\ UNCHANGED aux

\* App.tsx:132-135: openSelectKey() rejected
UpscaleKeySelectFailed(o) ==
    /\ ops[o].kind = "up"
    /\ ops[o].stage = "selectKey"
    /\ ops' = [ops EXCEPT ![o].stage = "done"]
    /\ UNCHANGED <<originalImage, generatedFrames, status, isDownloading,
                   isUpscaling, alerts, nextOp>>
    /\ UNCHANGED aux

\* App.tsx:144-153: the probe of frame 0 resolved and the requests are built
UpscaleProbed(o) ==
    /\ ops[o].kind = "up"
    /\ ops[o].stage = "probe"
    /\ ops' = [ops EXCEPT ![o].stage = "batch",
                          ![o].req = [k \in 1..Len(ops[o].frames) |-> "pending"]]
    /\ UNCHANGED <<originalImage, generatedFrames, status, isDownloading,
                   isUpscaling, alerts, nextOp>>
    /\ UNCHANGED aux

\* App.tsx:103 rejects (img.onerror), then 162-168
UpscaleProbeFailed(o) ==
    /\ ops[o].kind = "up"
    /\ ops[o].stage = "probe"
    /\ ops' = [ops EXCEPT ![o].stage = "done", ![o].rejected = TRUE]
    /\ alerts' = Append(alerts, UpscaleAlert)
    /\ FinallyUpscale
    /\ UNCHANGED <<originalImage, generatedFrames, isDownloading, nextOp>>
    /\ UNCHANGED aux

\* App.tsx:150-152 and, when it was the last one, 155-160 and 165-168
UpscaleRequestSucceeded(o, i) ==
    /\ ops[o].kind = "up"
    /\ Pending(ops[o], i)
    /\ LET req == [ops[o].req EXCEPT ![i] = "ok"]
           op == [ops[o] EXCEPT !.req = req, !.order = Append(@, i)]
           counted == [status EXCEPT !.completedFrames = @ + 1]
       IN IF AllFulfilled(req)
          THEN /\ generatedFrames' = SortedFrames(PromiseAllResults(o, op))
               /\ isUpscaling' = FALSE
               /\ status' = [counted EXCEPT !.isGenerating = FALSE]
               /\ ops' = [ops EXCEPT ![o] = [op EXCEPT !.stage = "done"]]
          ELSE /\ generatedFrames' = generatedFrames
               /\ isUpscaling' = isUpscaling
               /\ status' = counted
               /\ ops' = [ops EXCEPT ![o] = op]
    /\ UNCHANGED <<originalImage, isDownloading, alerts, nextOp>>
    /\ UNCHANGED aux

\* Mutant of UpscaleRequestFailed: the frames upscaled so far replace their
\* originals.
UpscaleRequestFailedKeepsPartial(o, i) ==
    /\ ops[o].kind = "up"
    /\ Pending(ops[o], i)
    /\ ops' = [ops EXCEPT ![o].req[i] = "fail", ![o].rejected = TRUE,
                          ![o].stage = "done"]
    /\ IF ops[o].rejected
       THEN UNCHANGED <<alerts, isUpscaling, status, generatedFrames>>
       ELSE /\ alerts' = Append(alerts, UpscaleAlert)
            /\ FinallyUpscale
            /\ generatedFrames' =
                  [k \in 1..Len(ops[o].frames) |->
                      IF ops[o].req[k] = "ok"
                      THEN UpscaledFrame(o, k - 1, ops[o].frames[k])
                      ELSE ops[o].frames[k]]
    /\ UNCHANGED <<originalImage, isDownloading, nextOp>>
    /\ UNCHANGED aux

\* upscaleFrame throws (part_000:298-301); Promise.all rejects at the first
\* rejection and App.tsx:162-168 run once
UpscaleRequestFailed(o, i) ==
    /\ ops[o].kind = "up"
    /\ Pending(ops[o], i)
    /\ ops' = [ops EXCEPT ![o].req[i] = "fail", ![o].rejected = TRUE,
                          ![o].stage = "done"]
    /\ IF ops[o].rejected
       THEN UNCHANGED <<alerts, isUpscaling, status>>
       ELSE /\ alerts' = Append(alerts, UpscaleAlert)
            /\ FinallyUpscale
    /\ UNCHANGED <<originalImage, generatedFrames, isDownloading, nextOp>>
    /\ UNCHANGED aux

----------------------------------------------------------------------------
\* App.tsx:171-181: handleDownloadVideo up to its first await; ctxOk tells
\* whether canvas.getContext('2d') returned a context (else 178, 231-234)
handleDownloadVideoRuns(ctxOk) ==
    /\ nextOp <= MaxOps
    /\ nextOp' = nextOp + 1
    /\ LET op == [NoOp EXCEPT !.kind = "video", !.frames = generatedFrames]
       IN IF ctxOk
          THEN /\ isDownloading' = TRUE
               /\ ops' = [ops EXCEPT ![nextOp] = [op EXCEPT !.stage = "first"]]
               /\ alerts' = alerts
          ELSE /\ isDownloading' = FALSE
               /\ ops' = [ops EXCEPT ![nextOp] = [op EXCEPT !.rejected = TRUE]]
               /\ alerts' = Append(alerts, VideoAlert)
    /\ UNCHANGED <<originalImage, generatedFrames, status, isUpscaling>>
    /\ UNCHANGED aux

\* App.tsx:416-418 and 171-181: handleDownloadVideo invoked by its button
handleDownloadVideo(ctxOk) ==
    /\ ResultButtonsEnabled
    /\ handleDownloadVideoRuns(ctxOk)

\* Mutant of VideoFirstLoaded: mp4 is tried first.
VideoFirstLoadedPrefersMp4(o, webm, mp4) ==
    /\ ops[o].kind = "video"
    /\ ops[o].stage = "first"
    /\ IF webm \/ mp4
       THEN /\ ops' = [ops EXCEPT
                  ![o].mimeType = IF mp4 THEN "video/mp4" ELSE "video/webm",
                  ![o].recorder = "recording",
                  ![o].stage = "load"]
            /\ UNCHANGED <<isDownloading, alerts>>
       ELSE /\ ops' = [ops EXCEPT ![o].stage = "done"]
            /\ alerts' = Append(alerts, NoVideoAlert)
            /\ isDownloading' = FALSE
    /\ UNCHANGED <<originalImage, generatedFrames, status, isUpscaling, nextOp>>
    /\ UNCHANGED aux

\* App.tsx:181-217: the first frame is loaded; webm and mp4 are the answers
\* of MediaRecorder.isTypeSupported
VideoFirstLoaded(o, webm, mp4) ==
    /\ ops[o].kind = "video"
    /\ ops[o].stage = "first"
    /\ IF webm \/ mp4
       THEN /\ ops' = [ops EXCEPT
                  ![o].mimeType = IF webm THEN "video/webm" ELSE "video/mp4",
                  ![o].recorder = "recording",
                  ![o].stage = "load"]
            /\ UNCHANGED <<isDownloading, alerts>>
       ELSE /\ ops' = [ops EXCEPT ![o].stage = "done"]
            /\ alerts' = Append(alerts, NoVideoAlert)
            /\ isDownloading' = FALSE
    /\ UNCHANGED <<originalImage, generatedFrames, status, isUpscaling, nextOp>>
    /\ UNCHANGED aux

\* App.tsx:222-225: the next frame is loaded and drawn, the wait begins
VideoFrameDrawn(o) ==
    /\ ops[o].kind = "video"
    /\ ops[o].stage = "load"
    /\ ops' = [ops EXCEPT
          ![o].drawn = Append(@, ops[o].frames[Len(ops[o].drawn) + 1]),
          ![o].stage = "wait"]
    /\ UNCHANGED <<originalImage, generatedFrames, status, isDownloading,
                   isUpscaling, alerts, nextOp>>
    /\ UNCHANGED aux

\* Mutant of VideoWaitElapsed: recorder.stop() follows the first wait.
VideoWaitElapsedStopsEarly(o) ==
    /\ ops[o].kind = "video"
    /\ ops[o].stage = "wait"
    /\ ops' = [ops EXCEPT ![o].stage = "stopping", ![o].recorder = "stopping"]
    /\ UNCHANGED <<originalImage, generatedFrames, status, isDownloading,
                   isUpscaling, alerts, nextOp>>
    /\ UNCHANGED aux

\* App.tsx:225-229: the 250 ms elapsed; the loop goes on or recorder.stop()
VideoWaitElapsed(o) ==
    /\ ops[o].kind = "video"
    /\ ops[o].stage = "wait"
    /\ IF Len(ops[o].drawn) < Len(ops[o].frames)
       THEN ops' = [ops EXCEPT ![o].stage = "load"]
       ELSE ops' = [ops EXCEPT ![o].stage = "stopping",
                               ![o].recorder = "stopping"]
    /\ UNCHANGED <<originalImage, generatedFrames, status, isDownloading,
                   isUpscaling, alerts, nextOp>>
    /\ UNCHANGED aux

\* App.tsx:204-215: recorder.onstop
VideoRecorderStopped(o) ==
    /\ ops[o].kind = "video"
    /\ ops[o].stage = "stopping"
    /\ ops' = [ops EXCEPT ![o].stage = "done", ![o].recorder = "inactive"]
    /\ isDownloading' = FALSE
    /\ UNCHANGED <<originalImage, generatedFrames, status, isUpscaling,
                   alerts, nextOp>>
    /\ UNCHANGED aux

\* Mutant of VideoLoadFailed: the catch does not clear isDownloading.
VideoLoadFailedKeepsFlag(o) ==
    /\ ops[o].kind = "video"
    /\ ops[o].stage \in {"first", "load"}
    /\ ops' = [ops EXCEPT ![o].stage = "done", ![o].rejected = TRUE]
    /\ alerts' = Append(alerts, VideoAlert)
    /\ UNCHANGED <<originalImage, generatedFrames, status, isDownloading,
                   isUpscaling, nextOp>>
    /\ UNCHANGED aux

\* loadImage rejects (App.tsx:97) at 181 or 222, then 231-234
VideoLoadFailed(o) ==
    /\ ops[o].kind = "video"
    /\ ops[o].stage \in {"first", "load"}
    /\ ops' = [ops EXCEPT ![o].stage = "done", ![o].rejected = TRUE]
    /\ isDownloading' = FALSE
    /\ alerts' = Append(alerts, VideoAlert)
    /\ UNCHANGED <<originalImage, generatedFrames, status, isUpscaling, nextOp>>
    /\ UNCHANGED aux

\* App.tsx:238-252: handleDownloadZip up to the await of generateAsync
handleDownloadZipRuns ==
    /\ nextOp <= MaxOps
    /\ nextOp' = nextOp + 1
    /\ isDownloading' = TRUE
    /\ ops' = [ops EXCEPT ![nextOp] =
                  [NoOp EXCEPT !.kind = "zip", !.frames = generatedFrames,
                               !.stage = "zipping"]]
    /\ UNCHANGED <<originalImage, generatedFrames, status, isUpscaling, alerts>>
    /\ UNCHANGED aux

\* App.tsx:424-426 and 238-252: handleDownloadZip invoked by its button
handleDownloadZip ==
    /\ ResultButtonsEnabled
    /\ handleDownloadZipRuns

\* App.tsx:252-260 and 265-267
ZipGenerated(o) ==
    /\ ops[o].kind = "zip"
    /\ ops[o].stage = "zipping"
    /\ ops' = [ops EXCEPT ![o].stage = "done"]
    /\ isDownloading' = FALSE
    /\ UNCHANGED <<originalImage, generatedFrames, status, isUpscaling,
                   alerts, nextOp>>
    /\ UNCHANGED aux

\* generateAsync rejects, then App.tsx:262-267
ZipFailed(o) ==
    /\ ops[o].kind = "zip"
    /\ ops[o].stage = "zipping"
    /\ ops' = [ops EXCEPT ![o].stage = "done", ![o].rejected = TRUE]
    /\ isDownloading' = FALSE
    /\ alerts' = Append(alerts, ZipAlert)
    /\ UNCHANGED <<originalImage, generatedFrames, status, isUpscaling, nextOp>>
    /\ UNCHANGED aux

----------------------------------------------------------------------------
\* getClosestAspectRatio (App.tsx:102-120). The ratios are kept as integers,
\* in units of 1/10000.

\* App.tsx:107-113
supportedRatios ==
    << [id |-> "1:1", val |-> 10000],
       [id |-> "3:4", val |-> 7500],
       [id |-> "4:3", val |-> 13330],
       [id |-> "9:16", val |-> 5625],
       [id |-> "16:9", val |-> 17780] >>

Abs(x) == IF x < 0 THEN -x ELSE x

\* Math.abs(entry.val - ratio) for ratio = width / height (App.tsx:104, 116),
\* multiplied by 10000 * height
Distance(entry, width, height) == Abs(entry.val * height - 10000 * width)

\* supportedRatios.reduce((prev, curr) => ...) (App.tsx:115-117), from the
\* k-th entry on with prev as the accumulator
RECURSIVE Reduce(_, _, _, _)
Reduce(prev, k, width, height) ==
    IF k > Len(supportedRatios) THEN prev
    ELSE LET curr == supportedRatios[k]
         IN Reduce(IF Distance(curr, width, height) < Distance(prev, width, height)
                   THEN curr ELSE prev,
                   k + 1, width, height)

\* App.tsx:115-119: closest.id
ClosestAspectRatio(width, height) ==
    Reduce(supportedRatios[1], 2, width, height).id

\* App.tsx:103-119: the image loaded, the label is returned
getClosestAspectRatio ==
    /\ probe.width > 0
    /\ probe.label = ""
    /\ probe' = [probe EXCEPT !.label = ClosestAspectRatio(probe.width, probe.height)]
    /\ UNCHANGED <<originalImage, generatedFrames, status, isDownloading,
                   isUpscaling, alerts, ops, nextOp, player, archive,
                   promptDescription, selectedDirection, launch>>

\* App.tsx:97, 103: the image failed to load and the promise rejects
AspectProbeRejected ==
    /\ probe.width > 0
    /\ probe.label = ""
    /\ probe' = [probe EXCEPT !.label = "rejected"]
    /\ UNCHANGED <<originalImage, generatedFrames, status, isDownloading,
                   isUpscaling, alerts, ops, nextOp, player, archive,
                   promptDescription, selectedDirection, launch>>

InitAspect ==
    /\ originalImage = NoImage
    /\ generatedFrames = <<>>
    /\ status = InitialStatus
    /\ isDownloading = FALSE
    /\ isUpscaling = FALSE
    /\ alerts = <<>>
    /\ ops = [o \in OpIds |-> NoOp]
    /\ nextOp = 1
    /\ player = NoPlayer
    /\ probe \in [width : 1..MaxDim, height : 1..MaxDim, label : {""}]
    /\ archive = NoArchive
    /\ promptDescription = InitialDescription
    /\ selectedDirection = InitialDirection
    /\ launch = NoLaunch

NextAspect ==
    \/ getClosestAspectRatio
    \/ AspectProbeRejected

SpecAspect == InitAspect /\ [][NextAspect]_vars

----------------------------------------------------------------------------
\* The entries of the archive (App.tsx:243-250). Strings are sequences of
\* characters; a sequence is the seed, as FileReader.readAsDataURL reads the
\* uploaded file, followed by the frames generateMotionFrame returned.

\* \w of a regular expression
WordChars ==
    {"a", "b", "c", "d", "e", "f", "g", "h", "i", "j", "k", "l", "m", "n", "o",
     "p", "q", "r", "s", "t", "u", "v", "w", "x", "y", "z",
     "A", "B", "C", "D", "E", "F", "G", "H", "I", "J", "K", "L", "M", "N", "O",
     "P", "Q", "R", "S", "T", "U", "V", "W", "X", "Y", "Z",
     "0", "1", "2", "3", "4", "5", "6", "7", "8", "9", "_"}

DataImage == <<"d", "a", "t", "a", ":", "i", "m", "a", "g", "e", "/">>
Base64Comma == <<";", "b", "a", "s", "e", "6", "4", ",">>
Png == <<"p", "n", "g">>

\* the subtypes of the image files a user uploads (part_001:21 accepts every
\* file whose type starts with image/)
ImageSubtypes ==
    {Png, <<"j", "p", "e", "g">>, <<"g", "i", "f">>, <<"w", "e", "b", "p">>,
     <<"s", "v", "g", "+", "x", "m", "l">>}

\* base64 contents of uploaded files
SeedContents == {<<"i", "V", "B", "O">>, <<"/", "9", "j", "/">>, <<"P", "H", "N", "2">>}

Digits == <<"0", "1", "2", "3", "4", "5", "6", "7", "8", "9">>

\* String(n) for n >= 0
RECURSIVE StringOf(_)
StringOf(n) ==
    IF n < 10 THEN <<Digits[n + 1]>>
    ELSE StringOf(n \div 10) \o <<Digits[(n % 10) + 1]>>

\* part_001:27-31: reader.readAsDataURL(file), the result is handed on
readAsDataURL(file) == DataImage \o file.subtype \o Base64Comma \o file.data

\* base64 content of the k-th generated frame
GeneratedContent(k) == <<"R", "0">> \o StringOf(k)

\* part_000:220: `data:image/png;base64,${part.inlineData.data}`
GeneratedDataUrl(data) == DataImage \o Png \o Base64Comma \o data

\* str has lit at position at (1-based)
HasAt(str, lit, at) ==
    /\ at + Len(lit) - 1 <= Len(str)
    /\ \A k \in 1..Len(lit) : str[at + k - 1] = lit[k]

\* the number of \w characters of str from position at on
RECURSIVE WordRun(_, _)
WordRun(str, at) ==
    IF at <= Len(str) /\ str[at] \in WordChars THEN 1 + WordRun(str, at + 1)
    ELSE 0

\* App.tsx:247: frame.replace(/^data:image\/\w+;base64,/, ""): \w+ takes the
\* longest run of word characters after which ;base64, follows
RemoveDataUrlPrefix(frame) ==
    IF ~HasAt(frame, DataImage, 1) THEN frame
    ELSE LET from == Len(DataImage) + 1
             fits == {k \in 1..WordRun(frame, from) :
                         HasAt(frame, Base64Comma, from + k)}
         IN IF fits = {} THEN frame
            ELSE LET k == CHOOSE k \in fits : \A j \in fits : j <= k
                 IN SubSeq(frame, from + k + Len(Base64Comma), Len(frame))

\* str.padStart(targetLength, padString) for a one-character padString
RECURSIVE padStart(_, _, _)
padStart(str, targetLength, padString) ==
    IF Len(str) >= targetLength THEN str
    ELSE padStart(<<padString>> \o str, targetLength, padString)

\* Mutant of Filename: the entries are numbered from 0.
FilenameFromZero(index) ==
    <<"f", "r", "a", "m", "e", "_">> \o padStart(StringOf(index), 3, "0")
        \o <<".", "p", "n", "g">>

\* App.tsx:248: `frame_${String(index + 1).padStart(3, '0')}.png`
Filename(index) ==
    <<"f", "r", "a", "m", "e", "_">> \o padStart(StringOf(index + 1), 3, "0")
        \o <<".", "p", "n", "g">>

\* zip.file(name, data, {base64: true}) (App.tsx:249): the entry of that name
\* is replaced, or a new entry is added after the others
ZipFile(entries, name, data) ==
    IF \E k \in 1..Len(entries) : entries[k].name = name
    THEN [k \in 1..Len(entries) |->
             IF entries[k].name = name THEN [name |-> name, data |-> data]
             ELSE entries[k]]
    ELSE Append(entries, [name |-> name, data |-> data])

\* generatedFrames.forEach((frame, index) => ...) (App.tsx:245-250), from
\* index on
RECURSIVE ForEachFrame(_, _, _)
ForEachFrame(entries, frames, index) ==
    IF index >= Len(frames) THEN entries
    ELSE ForEachFrame(ZipFile(entries, Filename(index),
                              RemoveDataUrlPrefix(frames[index + 1])),
                      frames, index + 1)

\* App.tsx:243-250: new JSZip() and the forEach
AddFramesToZip ==
    /\ archive.frames # <<>>
    /\ ~archive.built
    /\ archive' = [archive EXCEPT
                      !.entries = ForEachFrame(<<>>, archive.frames, 0),
                      !.built = TRUE]
    /\ UNCHANGED <<originalImage, generatedFrames, status, isDownloading,
                   isUpscaling, alerts, ops, nextOp, player, probe,
                   promptDescription, selectedDirection, launch>>

\* the files a sequence of 1 + n frames was made from, and the sequence
SequenceFiles(file, n) ==
    <<file>> \o [k \in 1..n |-> [subtype |-> Png, data |-> GeneratedContent(k)]]

SequenceFrames(file, n) ==
    <<readAsDataURL(file)>> \o [k \in 1..n |-> GeneratedDataUrl(GeneratedContent(k))]

InitZip ==
    /\ originalImage = NoImage
    /\ generatedFrames = <<>>
    /\ status = InitialStatus
    /\ isDownloading = FALSE
    /\ isUpscaling = FALSE
    /\ alerts = <<>>
    /\ ops = [o \in OpIds |-> NoOp]
    /\ nextOp = 1
    /\ player = NoPlayer
    /\ probe = NoProbe
    /\ \E file \in [subtype : ImageSubtypes, data : SeedContents],
          n \in 1..MaxGenerated :
          archive = [files |-> SequenceFiles(file, n),
                     frames |-> SequenceFrames(file, n),
                     entries |-> <<>>, built |-> FALSE]
    /\ promptDescription = InitialDescription
    /\ selectedDirection = InitialDirection
    /\ launch = NoLaunch

NextZip == AddFramesToZip

SpecZip == InitZip /\ [][NextZip]_vars

----------------------------------------------------------------------------
\* AnimationPlayer (part_000:9-149), mounted by App with
\* frames = generatedFrames while the sequence is not empty (App.tsx:397-399).
\* player.interval is the frames.length captured by the running interval (0:
\* no interval); player.effects tells which effects of the last render have
\* not run yet; player.last names the last event, player.wasPlaying the
\* play state it found and player.wasIndex the index a replacement found.
\* A render caused by a click runs its effects before the click's task ends,
\* and a click is handled on a render whose effects have run; the effects of
\* a render caused by App (a promise settled) run in a later task, so the
\* interval of the previous render can still fire before them. Its update
\* waits for the next render, which comes after those effects. An interval
\* does not fire before the effects of the next render have run when that
\* render is caused by the effects that set it (the period is 250 ms).
\* player.timers counts the intervals set and not cleared.

PlayerMounted == Len(generatedFrames) > 0

\* the sequences App displays: a generated one, or its upscaled replacement
GeneratedSequence(s) ==
    <<SeedFrame(s)>> \o [k \in 1..TOTAL_FRAMES |-> GeneratedFrame(1, k)]

UpscaledSequence(s) ==
    [k \in 1..(TOTAL_FRAMES + 1) |-> UpscaledFrame(2, k - 1, GeneratedSequence(s)[k])]

DisplayedSequences ==
    {<<>>} \cup {GeneratedSequence(s) : s \in Seeds}
           \cup {UpscaledSequence(s) : s \in Seeds}

\* part_000:19-27: the interval effect of a render with this play state: the
\* cleanup of the previous one, then a new interval or none
IntervalFor(isPlaying) ==
    IF isPlaying /\ Len(generatedFrames) > 1 THEN Len(generatedFrames) ELSE 0

\* Mutant of TimersFor: the effect returns no cleanup.
TimersForWithoutCleanup(isPlaying) ==
    player.timers + (IF IntervalFor(isPlaying) > 0 THEN 1 ELSE 0)

\* part_000:22-26: the cleanup clears the interval the last run of the effect
\* set, if it set one; the new run sets one or none
TimersFor(isPlaying) ==
    (player.timers - (IF player.interval > 0 THEN 1 ELSE 0))
        + (IF IntervalFor(isPlaying) > 0 THEN 1 ELSE 0)

\* App.tsx:397-399: setGeneratedFrames(frames) re-renders App, which mounts
\* the player, hands it the new array or unmounts it
AppReplacesFrames(frames) ==
    /\ generatedFrames' = frames
    /\ player' =
          IF frames = <<>> THEN NoPlayer
          ELSE IF ~PlayerMounted
               THEN [NoPlayer EXCEPT !.effects = "frames", !.last = "mount"]
               ELSE [player EXCEPT !.effects = "frames", !.last = "frames",
                                   !.wasPlaying = player.isPlaying,
                                   !.wasIndex = player.currentIndex]
    /\ UNCHANGED <<originalImage, status, isDownloading, isUpscaling, alerts,
                   ops, nextOp, probe, archive,
                   promptDescription, selectedDirection, launch>>

\* Mutant of RunEffects: the effects run without the reset.
RunEffectsWithoutReset ==
    /\ PlayerMounted
    /\ player.effects = "frames"
    /\ player' = [player EXCEPT !.interval = IntervalFor(player.isPlaying),
                                !.timers = TimersFor(player.isPlaying),
                                !.effects = "none", !.last = "effects"]
    /\ UNCHANGED <<originalImage, generatedFrames, status, isDownloading,
                   isUpscaling, alerts, ops, nextOp, probe, archive,
                   promptDescription, selectedDirection, launch>>

\* part_000:14-17 and 19-27: the effects of a render with new frames run: the
\* reset, and the interval effect of the render the reset causes
RunEffects ==
    /\ PlayerMounted
    /\ player.effects = "frames"
    /\ player' = [player EXCEPT !.currentIndex = 0, !.isPlaying = FALSE,
                                !.interval = IntervalFor(FALSE),
                                !.timers = TimersFor(FALSE),
                                !.effects = "none", !.last = "effects"]
    /\ UNCHANGED <<originalImage, generatedFrames, status, isDownloading,
                   isUpscaling, alerts, ops, nextOp, probe, archive,
                   promptDescription, selectedDirection, launch>>

\* part_000:22-24: the interval fires. When the effects of the last render
\* have not run, the update is applied in the render that follows them,
\* before the setCurrentIndex(0) of the reset (part_000:15), which
\* overwrites it: the index displayed does not change.
TimerTick ==
    /\ PlayerMounted
    /\ player.interval > 0
    /\ player' = IF player.effects = "none"
                 THEN [player EXCEPT
                          !.currentIndex = (player.currentIndex + 1) % player.interval,
                          !.last = "tick"]
                 ELSE [player EXCEPT !.last = "tick"]
    /\ UNCHANGED <<originalImage, generatedFrames, status, isDownloading,
                   isUpscaling, alerts, ops, nextOp, probe, archive,
                   promptDescription, selectedDirection, launch>>

\* part_000:87: the play/pause button
TogglePlay ==
    /\ PlayerMounted
    /\ player.effects = "none"
    /\ player' = [player EXCEPT !.isPlaying = ~player.isPlaying,
                                !.interval = IntervalFor(~player.isPlaying),
                                !.timers = TimersFor(~player.isPlaying),
                                !.last = "toggle",
                                !.wasPlaying = player.isPlaying]
    /\ UNCHANGED <<originalImage, generatedFrames, status, isDownloading,
                   isUpscaling, alerts, ops, nextOp, probe, archive,
                   promptDescription, selectedDirection, launch>>

\* Mutant of Navigate: the index is set and playback goes on.
NavigateKeepsPlaying(index, event) ==
    /\ player.effects = "none"
    /\ player' = [player EXCEPT !.currentIndex = index, !.last = event,
                                !.wasPlaying = player.isPlaying]
    /\ UNCHANGED <<originalImage, generatedFrames, status, isDownloading,
                   isUpscaling, alerts, ops, nextOp, probe, archive,
                   promptDescription, selectedDirection, launch>>

\* setIsPlaying(false) followed by setCurrentIndex (part_000:32-33, 37-38,
\* 42-43, 110-111), and the interval effect of the render they cause
Navigate(index, event) ==
    /\ player.effects = "none"
    /\ player' = [player EXCEPT
                     !.isPlaying = FALSE,
                     !.currentIndex = index,
                     !.interval = IntervalFor(FALSE),
                     !.timers = TimersFor(FALSE),
                     !.last = event,
                     !.wasPlaying = player.isPlaying]
    /\ UNCHANGED <<originalImage, generatedFrames, status, isDownloading,
                   isUpscaling, alerts, ops, nextOp, probe, archive,
                   promptDescription, selectedDirection, launch>>

\* Mutant of handleNext: the index is not wrapped.
handleNextUnwrapped ==
    /\ PlayerMounted
    /\ Navigate(player.currentIndex + 1, "next")

\* part_000:31-34
handleNext ==
    /\ PlayerMounted
    /\ Navigate((player.currentIndex + 1) % Len(generatedFrames), "next")

\* part_000:36-39
handlePrev ==
    /\ PlayerMounted
    /\ Navigate((player.currentIndex - 1 + Len(generatedFrames))
                   % Len(generatedFrames), "prev")

\* part_000:41-44, for the thumbnails of part_000:123-126
handleThumbnailClick(index) ==
    /\ PlayerMounted
    /\ index \in 0..(Len(generatedFrames) - 1)
    /\ Navigate(index, "thumbnail")

\* part_000:108-113: the Reset button
ResetClicked ==
    /\ PlayerMounted
    /\ Navigate(0, "reset")

NextPlayer ==
    \/ \E frames \in DisplayedSequences : AppReplacesFrames(frames)
    \/ RunEffects
    \/ TimerTick
    \/ TogglePlay
    \/ handleNext
    \/ handlePrev
    \/ \E index \in 0..TOTAL_FRAMES : handleThumbnailClick(index)
    \/ ResetClicked

SpecPlayer == Init /\ [][NextPlayer]_vars

----------------------------------------------------------------------------
Next ==
    \/ \E s \in Seeds : handleImageSelect(s)
    \/ handleGenerate
    \/ \E o \in OpIds, i \in 1..TOTAL_FRAMES : GenerateRequestSucceeded(o, i)
    \/ \E o \in OpIds, i \in 1..TOTAL_FRAMES : GenerateRequestFailed(o, i)
    \/ \E a \in BOOLEAN : handleUpscale(a)
    \/ \E o \in OpIds, hasKey \in BOOLEAN, canOpen \in BOOLEAN :
          UpscaleKeyChecked(o, hasKey, canOpen)
    \/ \E o \in OpIds : UpscaleKeySelected(o)
    \/ \E o \in OpIds : UpscaleKeySelectFailed(o)
    \/ \E o \in OpIds : UpscaleProbed(o)
    \/ \E o \in OpIds : UpscaleProbeFailed(o)
    \/ \E o \in OpIds, i \in 1..(TOTAL_FRAMES + 1) : UpscaleRequestSucceeded(o, i)
    \/ \E o \in OpIds, i \in 1..(TOTAL_FRAMES + 1) : UpscaleRequestFailed(o, i)
    \/ \E c \in BOOLEAN : handleDownloadVideo(c)
    \/ \E o \in OpIds, webm \in BOOLEAN, mp4 \in BOOLEAN : VideoFirstLoaded(o, webm, mp4)
    \/ \E o \in OpIds : VideoFrameDrawn(o)
    \/ \E o \in OpIds : VideoWaitElapsed(o)
    \/ \E o \in OpIds : VideoRecorderStopped(o)
    \/ \E o \in OpIds : VideoLoadFailed(o)
    \/ handleDownloadZip
    \/ \E o \in OpIds : ZipGenerated(o)
    \/ \E o \in OpIds : ZipFailed(o)

Spec == Init /\ [][Next]_vars

\* what the environment owes invocation o: a request, an image load, a key
\* dialog, a timer or a recorder event that is outstanding settles
Settles(o) ==
    \/ \E i \in 1..TOTAL_FRAMES : GenerateRequestSucceeded(o, i)
    \/ \E i \in 1..TOTAL_FRAMES : GenerateRequestFailed(o, i)
    \/ \E hasKey \in BOOLEAN, canOpen \in BOOLEAN : UpscaleKeyChecked(o, hasKey, canOpen)
    \/ UpscaleKeySelected(o)
    \/ UpscaleKeySelectFailed(o)
    \/ UpscaleProbed(o)
    \/ UpscaleProbeFailed(o)
    \/ \E i \in 1..(TOTAL_FRAMES + 1) : UpscaleRequestSucceeded(o, i)
    \/ \E i \in 1..(TOTAL_FRAMES + 1) : UpscaleRequestFailed(o, i)
    \/ \E webm \in BOOLEAN, mp4 \in BOOLEAN : VideoFirstLoaded(o, webm, mp4)
    \/ VideoFrameDrawn(o)
    \/ VideoWaitElapsed(o)
    \/ VideoRecorderStopped(o)
    \/ VideoLoadFailed(o)
    \/ ZipGenerated(o)
    \/ ZipFailed(o)

\* Spec with every outstanding event of every invocation settling; the user
\* owes nothing
SpecSettling == Spec /\ \A o \in OpIds : WF_vars(Settles(o))

\* The seed, generate and upscale handlers alone (App.tsx:35-169), with one
\* more invocation than Spec: enough for two generations followed by an
\* upscale.
InitBatches ==
    /\ originalImage = NoImage
    /\ generatedFrames = <<>>
    /\ status = InitialStatus
    /\ isDownloading = FALSE
    /\ isUpscaling = FALSE
    /\ alerts = <<>>
    /\ ops = [o \in OpIds |-> NoOp]
    /\ nextOp = 0
    /\ player = NoPlayer
    /\ probe = NoProbe
    /\ archive = NoArchive
    /\ promptDescription = InitialDescription
    /\ selectedDirection = InitialDirection
    /\ launch = NoLaunch

NextBatches ==
    \/ \E s \in Seeds : handleImageSelect(s)
    \/ handleGenerate
    \/ \E o \in OpIds, i \in 1..TOTAL_FRAMES : GenerateRequestSucceeded(o, i)
    \/ \E o \in OpIds, i \in 1..TOTAL_FRAMES : GenerateRequestFailed(o, i)
    \/ \E a \in BOOLEAN : handleUpscale(a)
    \/ \E o \in OpIds, hasKey \in BOOLEAN, canOpen \in BOOLEAN :
          UpscaleKeyChecked(o, hasKey, canOpen)
    \/ \E o \in OpIds : UpscaleKeySelected(o)
    \/ \E o \in OpIds : UpscaleKeySelectFailed(o)
    \/ \E o \in OpIds : UpscaleProbed(o)
    \/ \E o \in OpIds : UpscaleProbeFailed(o)
    \/ \E o \in OpIds, i \in 1..(TOTAL_FRAMES + 1) : UpscaleRequestSucceeded(o, i)
    \/ \E o \in OpIds, i \in 1..(TOTAL_FRAMES + 1) : UpscaleRequestFailed(o, i)

SpecBatches == InitBatches /\ [][NextBatches]_vars

----------------------------------------------------------------------------
\* The requests of a generation one by one (App.tsx:52-71): the loop sets a
\* timer of i * 100 ms for each index i, and the then-callback of a timer
\* calls generateMotionFrame with what the closure of the click holds.

\* App.tsx:57
Delay(i) == i * 100

\* the indices whose call was made
Launched(o) == {launch[o][k].frameIndex : k \in 1..Len(launch[o])}

\* App.tsx:329, 332: the description field
setPromptDescription(value) ==
    /\ ~status.isGenerating
    /\ ~isUpscaling
    /\ promptDescription' = value
    /\ UNCHANGED <<originalImage, generatedFrames, status, isDownloading,
                   isUpscaling, alerts, ops, nextOp, player, probe, archive,
                   selectedDirection, launch>>

\* App.tsx:347-348: a direction button
setSelectedDirection(id) ==
    /\ ~status.isGenerating
    /\ ~isUpscaling
    /\ selectedDirection' = id
    /\ UNCHANGED <<originalImage, generatedFrames, status, isDownloading,
                   isUpscaling, alerts, ops, nextOp, player, probe, archive,
                   promptDescription, launch>>

\* Mutant of GenerateTimerFired: the call reads the state current when the
\* timer fires.
GenerateTimerFiredReadsState(o, i) ==
    /\ ops[o].kind = "gen"
    /\ i \in 1..TOTAL_FRAMES \ Launched(o)
    /\ \A j \in 1..TOTAL_FRAMES \ Launched(o) : Delay(i) <= Delay(j)
    /\ launch' = [launch EXCEPT ![o] = Append(@,
                     [base64Image |-> originalImage, frameIndex |-> i,
                      totalFrames |-> TOTAL_FRAMES,
                      description |-> promptDescription,
                      direction |-> selectedDirection])]
    /\ UNCHANGED <<originalImage, generatedFrames, status, isDownloading,
                   isUpscaling, alerts, ops, nextOp, player, probe, archive,
                   promptDescription, selectedDirection>>

\* App.tsx:60-62: the timer of index i, the earliest of those still set,
\* fires and generateMotionFrame is called
GenerateTimerFired(o, i) ==
    /\ ops[o].kind = "gen"
    /\ i \in 1..TOTAL_FRAMES \ Launched(o)
    /\ \A j \in 1..TOTAL_FRAMES \ Launched(o) : Delay(i) <= Delay(j)
    /\ launch' = [launch EXCEPT ![o] = Append(@,
                     [base64Image |-> ops[o].seed, frameIndex |-> i,
                      totalFrames |-> TOTAL_FRAMES,
                      description |-> ops[o].description,
                      direction |-> ops[o].direction])]
    /\ UNCHANGED <<originalImage, generatedFrames, status, isDownloading,
                   isUpscaling, alerts, ops, nextOp, player, probe, archive,
                   promptDescription, selectedDirection>>

\* the call of index i, made, resolves or throws
LaunchedRequestSucceeded(o, i) ==
    /\ i \in Launched(o)
    /\ GenerateRequestSucceeded(o, i)

LaunchedRequestFailed(o, i) ==
    /\ i \in Launched(o)
    /\ GenerateRequestFailed(o, i)

\* one generation is followed: it is the last invocation
InitLaunch ==
    /\ originalImage = NoImage
    /\ generatedFrames = <<>>
    /\ status = InitialStatus
    /\ isDownloading = FALSE
    /\ isUpscaling = FALSE
    /\ alerts = <<>>
    /\ ops = [o \in OpIds |-> NoOp]
    /\ nextOp = MaxOps
    /\ player = NoPlayer
    /\ probe = NoProbe
    /\ archive = NoArchive
    /\ promptDescription = InitialDescription
    /\ selectedDirection = InitialDirection
    /\ launch = NoLaunch

NextLaunch ==
    \/ \E s \in Seeds : handleImageSelect(s)
    \/ \E value \in Descriptions : setPromptDescription(value)
    \/ \E id \in Directions : setSelectedDirection(id)
    \/ handleGenerate
    \/ \E o \in OpIds, i \in 1..TOTAL_FRAMES : GenerateTimerFired(o, i)
    \/ \E o \in OpIds, i \in 1..TOTAL_FRAMES : LaunchedRequestSucceeded(o, i)
    \/ \E o \in OpIds, i \in 1..TOTAL_FRAMES : LaunchedRequestFailed(o, i)

SpecLaunch == InitLaunch /\ [][NextLaunch]_vars

----------------------------------------------------------------------------
\* The four handlers called as functions, whatever the buttons show: each
\* begins with the test of its input.

\* App.tsx:43, 123, 172, 239: the return of a handler invoked without its
\* input. The invocation is recorded with no request; nothing else is
\* assigned.
ReturnsAtOnce(kind) ==
    /\ nextOp <= MaxOps
    /\ nextOp' = nextOp + 1
    /\ ops' = [ops EXCEPT ![nextOp] =
                  [NoOp EXCEPT !.kind = kind, !.stage = "returned"]]
    /\ UNCHANGED <<originalImage, generatedFrames, status, isDownloading,
                   isUpscaling, alerts>>
    /\ UNCHANGED aux

\* Mutant of InvokeGenerate: the handler does not test the seed.
InvokeGenerateUnguarded ==
    handleGenerateRuns

\* App.tsx:42-71
InvokeGenerate ==
    IF originalImage = NoImage
    THEN ReturnsAtOnce("gen")
    ELSE handleGenerateRuns

\* App.tsx:122-140
InvokeUpscale(aistudio) ==
    IF Len(generatedFrames) = 0
    THEN ReturnsAtOnce("up")
    ELSE handleUpscaleRuns(aistudio)

\* App.tsx:171-181
InvokeDownloadVideo(ctxOk) ==
    IF Len(generatedFrames) = 0
    THEN ReturnsAtOnce("video")
    ELSE handleDownloadVideoRuns(ctxOk)

\* App.tsx:238-252
InvokeDownloadZip ==
    IF Len(generatedFrames) = 0
    THEN ReturnsAtOnce("zip")
    ELSE handleDownloadZipRuns

NextInvoke ==
    \/ \E s \in Seeds : handleImageSelect(s)
    \/ InvokeGenerate
    \/ \E o \in OpIds, i \in 1..TOTAL_FRAMES : GenerateRequestSucceeded(o, i)
    \/ \E o \in OpIds, i \in 1..TOTAL_FRAMES : GenerateRequestFailed(o, i)
    \/ \E a \in BOOLEAN : InvokeUpscale(a)
    \/ \E o \in OpIds, hasKey \in BOOLEAN, canOpen \in BOOLEAN :
          UpscaleKeyChecked(o, hasKey, canOpen)
    \/ \E o \in OpIds : UpscaleKeySelected(o)
    \/ \E o \in OpIds : UpscaleKeySelectFailed(o)
    \/ \E o \in OpIds : UpscaleProbed(o)
    \/ \E o \in OpIds : UpscaleProbeFailed(o)
    \/ \E o \in OpIds, i \in 1..(TOTAL_FRAMES + 1) : UpscaleRequestSucceeded(o, i)
    \/ \E o \in OpIds, i \in 1..(TOTAL_FRAMES + 1) : UpscaleRequestFailed(o, i)
    \/ \E c \in BOOLEAN : InvokeDownloadVideo(c)
    \/ \E o \in OpIds, webm \in BOOLEAN, mp4 \in BOOLEAN : VideoFirstLoaded(o, webm, mp4)
    \/ \E o \in OpIds : VideoFrameDrawn(o)
    \/ \E o \in OpIds : VideoWaitElapsed(o)
    \/ \E o \in OpIds : VideoRecorderStopped(o)
    \/ \E o \in OpIds : VideoLoadFailed(o)
    \/ InvokeDownloadZip
    \/ \E o \in OpIds : ZipGenerated(o)
    \/ \E o \in OpIds : ZipFailed(o)

SpecInvoke == Init /\ [][NextInvoke]_vars

----------------------------------------------------------------------------
\* Steps of the batches, recognised by what they do to the invocation record.

\* handleGenerate was invoked in this step, as invocation o
GenerateStarts(o) == ops[o].kind = "none" /\ ops'[o].kind = "gen"

\* the Promise.all of generate invocation o resolved in this step
GenerateResolves(o) ==
    /\ ops[o].kind = "gen"
    /\ ops[o].stage = "batch"
    /\ ops'[o].stage = "done"
    /\ ~ops'[o].rejected

\* the catch of generate invocation o ran in this step
GenerateRejects(o) ==
    ops[o].kind = "gen" /\ ~ops[o].rejected /\ ops'[o].rejected

\* the Promise.all of upscale invocation o resolved in this step
UpscaleResolves(o) ==
    /\ ops[o].kind = "up"
    /\ ops[o].stage = "batch"
    /\ ops'[o].stage = "done"
    /\ ~ops'[o].rejected

\* the catch of upscale invocation o ran in this step (a request or the probe
\* of frame 0 failed)
UpscaleRejects(o) ==
    ops[o].kind = "up" /\ ~ops[o].rejected /\ ops'[o].rejected

\* the requests of invocation o completed in an order other than by index
OutOfOrder(o) ==
    \E j, k \in 1..Len(ops[o].order) : j < k /\ ops[o].order[j] > ops[o].order[k]

\* C1: when all TOTAL_FRAMES requests of a generate operation succeed, in
\* whatever order, the displayed sequence becomes the seed the operation was
\* started with followed by the frame of request 1, of request 2, ...
C1_GenerateOrdersByRequestIndex ==
    [][\A o \in OpIds : GenerateResolves(o) =>
          /\ Len(generatedFrames') = TOTAL_FRAMES + 1
          /\ generatedFrames'[1] = SeedFrame(ops[o].seed)
          /\ \A i \in 1..TOTAL_FRAMES :
                generatedFrames'[i + 1] = GeneratedFrame(o, i)]_vars

\* C1 witness: a generation whose requests completed out of index order has
\* resolved and its sequence is displayed.
C1_Witness ==
    \E o \in OpIds :
        /\ ops[o].kind = "gen" /\ ops[o].stage = "done" /\ ~ops[o].rejected
        /\ OutOfOrder(o)
        /\ Len(generatedFrames) = TOTAL_FRAMES + 1
        /\ generatedFrames[TOTAL_FRAMES + 1] = GeneratedFrame(o, TOTAL_FRAMES)

C3_ImageSelectResets ==
    [][\A s \in Seeds : handleImageSelect(s) =>
          /\ originalImage' = s
          /\ generatedFrames' = <<>>
          /\ status'.completedFrames = 0
          /\ ~status'.isGenerating
          /\ status'.totalFrames = TOTAL_FRAMES
          /\ status'.error = NoError]_vars

\* C3 witness: a new seed was supplied while an upscale was in flight, after
\* progress had been counted.
C3_Witness ==
    \E o \in OpIds :
        /\ ops[o].kind = "up" /\ ops[o].stage = "batch"
        /\ \E k \in 1..Len(ops[o].req) : ops[o].req[k] = "ok"
        /\ isUpscaling
        /\ originalImage # ops[o].seed
        /\ generatedFrames = <<>>
        /\ status = InitialStatus

\* A batch is superseded once another seed image was supplied or a later
\* generation was started.
Superseded(o) ==
    \/ originalImage # ops[o].seed
    \/ \E later \in OpIds : later > o /\ ops[later].kind = "gen"

\* C4 as claimed: the results of a generate or upscale batch that was in
\* flight when a new seed was supplied or generation was restarted are
\* discarded: its completion does not change the displayed sequence.
C4_SupersededResultsDiscarded ==
    [][\A o \in OpIds :
          (Superseded(o) /\ (GenerateResolves(o) \/ UpscaleResolves(o)))
             => generatedFrames' = generatedFrames]_vars

\* an invocation whose handler has not finished
Running(o) == ops[o].kind # "none" /\ ops[o].stage # "done"

\* C5 as claimed: at most one of the operations generate, upscale and export
\* is in flight.
C5_SingleOperationInFlight ==
    Cardinality({o \in OpIds : Running(o)}) <= 1

\* C6: when every request of an upscale succeeds, in whatever order, the
\* displayed sequence has the length of the sequence the operation was
\* started on and position i holds the upscaled result of its element i.
C6_UpscalePreservesOrder ==
    [][\A o \in OpIds : UpscaleResolves(o) =>
          /\ Len(generatedFrames') = Len(ops[o].frames)
          /\ \A k \in 1..Len(ops[o].frames) :
                generatedFrames'[k] = UpscaledFrame(o, k - 1, ops[o].frames[k])]_vars

\* C6 witness: an upscale whose requests completed out of index order has
\* resolved and its frames are displayed.
C6_Witness ==
    \E o \in OpIds :
        /\ ops[o].kind = "up" /\ ops[o].stage = "done" /\ ~ops[o].rejected
        /\ OutOfOrder(o)
        /\ Len(generatedFrames) = Len(ops[o].frames)
        /\ generatedFrames[1] = UpscaledFrame(o, 0, ops[o].frames[1])

\* frame f is a result of upscale invocation o
UpscaledBy(o, f) == Len(f) = 4 /\ f[1] = "up" /\ f[2] = o

C8_BatchFailureSetsError ==
    [][\A o \in OpIds :
          (GenerateRejects(o) \/ UpscaleRejects(o)) => status'.error # NoError]_vars

\* C8 as amended: the failure of a generate sets status.error; the failure of
\* an upscale raises an alert and leaves status.error as it was.
C8_FailureReported ==
    [][\A o \in OpIds :
          /\ GenerateRejects(o) => status'.error = GenerateError
          /\ UpscaleRejects(o) =>
                /\ alerts' = Append(alerts, UpscaleAlert)
                /\ status'.error = status.error]_vars

\* C8 witness: an upscale has failed and the status carries no error.
C8_Witness ==
    \E o \in OpIds :
        /\ ops[o].kind = "up" /\ ops[o].rejected
        /\ status.error = NoError
        /\ UpscaleAlert \in {alerts[k] : k \in 1..Len(alerts)}

\* the label C9 asks for: among 1:1, 3:4, 4:3, 9:16, 16:9, in this order,
\* the first one whose ratio n/d is at minimum distance from width/height;
\* |n/d - w/h| is compared as |n*h - d*w| * (the other denominator)
ExactRatios ==
    << [id |-> "1:1", n |-> 1, d |-> 1], [id |-> "3:4", n |-> 3, d |-> 4],
       [id |-> "4:3", n |-> 4, d |-> 3], [id |-> "9:16", n |-> 9, d |-> 16],
       [id |-> "16:9", n |-> 16, d |-> 9] >>

Nearer(a, b, w, h) == Abs(a.n * h - a.d * w) * b.d < Abs(b.n * h - b.d * w) * a.d

NearestLabel(w, h) ==
    LET best == CHOOSE j \in 1..Len(ExactRatios) :
                   /\ \A k \in 1..Len(ExactRatios) :
                         ~Nearer(ExactRatios[k], ExactRatios[j], w, h)
                   /\ \A k \in 1..(j - 1) :
                         Nearer(ExactRatios[j], ExactRatios[k], w, h)
    IN ExactRatios[best].id

\* C9 as claimed: for every width and height getClosestAspectRatio returns
\* the supported label whose ratio is nearest to width/height, and of two
\* equally near ones the earlier in the order 1:1, 3:4, 4:3, 9:16, 16:9.
C9_NearestRatioEarliestOnTie ==
    probe.label \notin {"", "rejected"}
        => probe.label = NearestLabel(probe.width, probe.height)

\* C10: the index of the mounted player is always in [0, length-1]; next at
\* the last index yields 0 and previous at index 0 yields length-1.
C10_IndexInRange ==
    [][/\ PlayerMounted' =>
             player'.currentIndex \in 0..(Len(generatedFrames') - 1)
       /\ (handleNext /\ player.currentIndex = Len(generatedFrames) - 1)
             => player'.currentIndex = 0
       /\ (handlePrev /\ player.currentIndex = 0)
             => player'.currentIndex = Len(generatedFrames) - 1]_vars

\* C10 witness: next was pressed at the last index and the player shows
\* index 0 of a sequence of more than one frame.
C10_Witness ==
    /\ PlayerMounted
    /\ Len(generatedFrames) > 1
    /\ player.last = "next"
    /\ player.currentIndex = 0

\* a next, previous, thumbnail or reset step of the player
ManualNavigation ==
    \/ handleNext
    \/ handlePrev
    \/ \E index \in 0..TOTAL_FRAMES : handleThumbnailClick(index)
    \/ ResetClicked

\* C11: a next, previous, thumbnail or reset performed while playing leaves
\* the play state false and no interval running; the timer advances the
\* index only while the play state is true, and the play state becomes true
\* only through the play button.
C11_ManualNavigationPauses ==
    [][/\ ManualNavigation => (~player'.isPlaying /\ player'.interval = 0)
       /\ TimerTick => player.isPlaying
       /\ (~player.isPlaying /\ player'.isPlaying) => TogglePlay]_vars

\* C11 witness: a thumbnail other than the first was selected while the
\* player was playing; it is paused on that frame with no interval.
C11_Witness ==
    /\ PlayerMounted
    /\ player.last = "thumbnail"
    /\ player.wasPlaying
    /\ player.currentIndex > 0
    /\ ~player.isPlaying
    /\ player.interval = 0

\* C12: every render of the player with a new sequence has the reset effect
\* to run, whatever the index and the play state are; when the effect has
\* run the index is 0, the player is paused and no interval is running; and
\* until it has run only the interval of the previous render acts on the
\* player.
C12_NewSequenceResets ==
    [][/\ (generatedFrames' # generatedFrames /\ generatedFrames' # <<>>)
             => player'.effects = "frames"
       /\ RunEffects => /\ player'.currentIndex = 0
                        /\ ~player'.isPlaying
                        /\ player'.interval = 0
                        /\ player'.effects = "none"
       /\ (player.effects = "frames" /\ player'.effects = "none"
             /\ generatedFrames' # <<>>) => RunEffects
       /\ (player.effects = "frames" /\ player' # player)
             => \/ RunEffects
                \/ TimerTick
                \/ \E frames \in DisplayedSequences :
                      AppReplacesFrames(frames)]_vars

\* C12 witness: an upscaled sequence replaced the generated one while the
\* player was playing on a later frame; the reset has run.
C12_Witness ==
    /\ \E s \in Seeds : generatedFrames = UpscaledSequence(s)
    /\ player.last = "effects"
    /\ player.wasPlaying
    /\ player.wasIndex > 0
    /\ player.currentIndex = 0
    /\ ~player.isPlaying
    /\ player.effects = "none"

\* the name frame_NNN.png of the entry at 0-based position index, for a
\* position below 999
NameOfPosition(index) ==
    LET n == index + 1
    IN <<"f", "r", "a", "m", "e", "_",
         Digits[(n \div 100) + 1], Digits[((n \div 10) % 10) + 1],
         Digits[(n % 10) + 1], ".", "p", "n", "g">>

\* tail is the end of str
EndsWith(str, tail) ==
    /\ Len(tail) <= Len(str)
    /\ SubSeq(str, Len(str) - Len(tail) + 1, Len(str)) = tail

\* C13: the archive built from a sequence of length L has exactly L entries;
\* the entry at position i is named frame_ followed by i+1 padded with zeros
\* to three digits and .png, and its data is taken from frame i (it ends
\* with the base64 content of frame i).
C13_ZipEntriesNamedInOrder ==
    archive.built =>
        /\ Len(archive.entries) = Len(archive.frames)
        /\ \A k \in 1..Len(archive.entries) :
              /\ archive.entries[k].name = NameOfPosition(k - 1)
              /\ EndsWith(archive.entries[k].data, archive.files[k].data)
              /\ EndsWith(archive.frames[k], archive.entries[k].data)

\* C13 witness: an archive of eleven entries, the last named frame_011.png
\* and holding the content of the tenth generated frame.
C13_Witness ==
    /\ archive.built
    /\ Len(archive.entries) = 11
    /\ archive.entries[11].name =
          <<"f", "r", "a", "m", "e", "_", "0", "1", "1", ".", "p", "n", "g">>
    /\ archive.entries[11].data = GeneratedContent(10)

\* C14: the data of every entry of the archive, the seed's included whatever
\* the type of the uploaded image, is the base64 content of its frame, the
\* data-URL prefix removed.
C14_ZipEntriesWithoutPrefix ==
    archive.built =>
        \A k \in 1..Len(archive.entries) :
            archive.entries[k].data = archive.files[k].data

\* C15: in a video export the recorder is started before the first draw;
\* the frames drawn are always the first frames of the exported sequence in
\* its order, each drawn once; a frame is drawn only when no wait is running,
\* and a wait follows each draw: the next draw or the stop comes only after
\* that wait has elapsed; the recorder is stopped only when every frame has
\* been drawn and the wait after the last one has elapsed.
C15_VideoEventsInOrder ==
    [][\A o \in OpIds :
         LET op == ops[o]
             opAfter == ops'[o]
         IN (opAfter.kind = "video") =>
              /\ opAfter.drawn # <<>> => opAfter.recorder # "none"
              /\ opAfter.drawn = SubSeq(opAfter.frames, 1, Len(opAfter.drawn))
              /\ opAfter.drawn # op.drawn =>
                    /\ op.kind = "video"
                    /\ op.stage = "load"
                    /\ op.recorder = "recording"
                    /\ opAfter.drawn = Append(op.drawn, op.frames[Len(op.drawn) + 1])
                    /\ opAfter.stage = "wait"
              /\ (op.kind = "video" /\ op.stage = "wait" /\ opAfter.stage # "wait")
                    => VideoWaitElapsed(o)
              /\ (opAfter.recorder = "stopping" /\ op.recorder # "stopping") =>
                    /\ VideoWaitElapsed(o)
                    /\ op.drawn = op.frames
              /\ opAfter.recorder \in {"stopping", "inactive"}
                    => opAfter.drawn = opAfter.frames]_vars

\* C15 witness: an export of a sequence of TOTAL_FRAMES + 1 frames has drawn
\* them all and its recorder has stopped.
C15_Witness ==
    \E o \in OpIds :
        /\ ops[o].kind = "video"
        /\ ops[o].stage = "done"
        /\ ops[o].recorder = "inactive"
        /\ Len(ops[o].frames) = TOTAL_FRAMES + 1
        /\ ops[o].drawn = ops[o].frames

\* C16: when the export has loaded its first frame it takes video/webm if
\* the browser supports it, else video/mp4 if the browser supports that, and
\* starts the recorder; if neither is supported it raises the alert, starts
\* no recorder, ends, and isDownloading is false. A recorder that runs or
\* has stopped has one of the two types, and an export without a type has no
\* recorder.
C16_VideoContainerByPreference ==
    [][\A o \in OpIds :
         /\ \A webm, mp4 \in BOOLEAN :
              VideoFirstLoaded(o, webm, mp4) =>
                 /\ webm => ops'[o].mimeType = "video/webm"
                 /\ (~webm /\ mp4) => ops'[o].mimeType = "video/mp4"
                 /\ (webm \/ mp4) => /\ ops'[o].recorder = "recording"
                                     /\ alerts' = alerts
                                     /\ isDownloading' = isDownloading
                 /\ (~webm /\ ~mp4) =>
                       /\ ops'[o].mimeType = ""
                       /\ ops'[o].recorder = "none"
                       /\ ops'[o].stage = "done"
                       /\ alerts' = Append(alerts, NoVideoAlert)
                       /\ ~isDownloading'
         /\ ops'[o].recorder # "none"
               => ops'[o].mimeType \in {"video/webm", "video/mp4"}
         /\ (ops[o].kind = "video" /\ ops[o].mimeType = "" /\ ops[o].stage = "done")
               => ops'[o] = ops[o]]_vars

\* C16 witness: an export ended on a browser that supports neither type: the
\* last alert is the message, no recorder was started, isDownloading is
\* false.
C16_Witness ==
    \E o \in OpIds :
        /\ ops[o].kind = "video"
        /\ ops[o].stage = "done"
        /\ ~ops[o].rejected
        /\ ops[o].mimeType = ""
        /\ ops[o].recorder = "none"
        /\ ops[o].drawn = <<>>
        /\ alerts # <<>>
        /\ alerts[Len(alerts)] = NoVideoAlert
        /\ ~isDownloading

\* C17: whenever the displayed sequence is not empty, its first element is
\* the current seed image.
C17_FirstFrameIsCurrentSeed ==
    generatedFrames # <<>> => generatedFrames[1] = SeedFrame(originalImage)

\* C18: a generate or upscale batch whose outcome is there (the sequence
\* replaced, or the failure recorded and the in-progress flag cleared) has no
\* request outstanding.
C18_OutcomeOnlyWhenAllSettled ==
    \A o \in OpIds :
        (ops[o].kind \in {"gen", "up"} /\ ops[o].stage = "done") =>
            \A k \in 1..Len(ops[o].req) : ops[o].req[k] # "pending"

\* the displayed sequence is empty or has TOTAL_FRAMES + 1 elements
EmptyOrFullLength == Len(generatedFrames) \in {0, TOTAL_FRAMES + 1}

\* C19: in every state the displayed sequence is empty or has
\* TOTAL_FRAMES + 1 elements, and the step in which an upscale completes
\* leaves the length of the displayed sequence as it was.
C19_LengthZeroOrFullUpscaleKeepsIt ==
    [][/\ EmptyOrFullLength'
       /\ \A o \in OpIds :
             UpscaleResolves(o) => Len(generatedFrames') = Len(generatedFrames)]_vars

\* the step in which an upscale starts its batch (App.tsx:139-140)
UpscaleStarts(o) ==
    /\ ops'[o].kind = "up"
    /\ ops[o].stage # "probe"
    /\ ops'[o].stage = "probe"

\* C20: right after a generate operation starts, an upscale operation starts
\* or a new seed image is provided, completedFrames is 0, totalFrames is the
\* number of outputs the operation is to produce and status.error is empty.
C20_StatusResetOnStart ==
    [][/\ (handleGenerate \/ \E s \in Seeds : handleImageSelect(s)) =>
             /\ status'.completedFrames = 0
             /\ status'.totalFrames = TOTAL_FRAMES
             /\ status'.error = NoError
       /\ \A o \in OpIds : UpscaleStarts(o) =>
             /\ status'.completedFrames = 0
             /\ status'.totalFrames = Len(ops'[o].frames)
             /\ status'.error = NoError]_vars

\* o is the only handler invocation so far
OnlyInvocation(o) == \A p \in OpIds \ {o} : ops[p].kind = "none"

\* C21: while a generate operation is the only operation invoked so far,
\* each request that succeeds adds exactly 1 to completedFrames, a request
\* that fails leaves it, and nothing else raises it; when the operation
\* resolves with isGenerating still true (nothing has reset the status since
\* it started), completedFrames = totalFrames = TOTAL_FRAMES and
\* isGenerating becomes false.
C21_ProgressCountsSuccesses ==
    [][\A o \in OpIds :
         (ops[o].kind = "gen" /\ OnlyInvocation(o) /\ OnlyInvocation(o)') =>
            /\ \A i \in 1..TOTAL_FRAMES :
                  /\ GenerateRequestSucceeded(o, i)
                        => status'.completedFrames = status.completedFrames + 1
                  /\ GenerateRequestFailed(o, i)
                        => status'.completedFrames = status.completedFrames
            /\ status'.completedFrames > status.completedFrames
                  => \E i \in 1..TOTAL_FRAMES : GenerateRequestSucceeded(o, i)
            /\ (GenerateResolves(o) /\ status.isGenerating) =>
                  /\ status'.completedFrames = TOTAL_FRAMES
                  /\ status'.totalFrames = TOTAL_FRAMES
                  /\ ~status'.isGenerating]_vars

\* C21 witness: the only operation invoked, a generation, has ended
\* successfully: every request succeeded and was counted.
C21_Witness ==
    /\ nextOp = 2
    /\ ops[1].kind = "gen"
    /\ ops[1].stage = "done"
    /\ ~ops[1].rejected
    /\ Len(generatedFrames) = TOTAL_FRAMES + 1
    /\ status.completedFrames = TOTAL_FRAMES
    /\ status.totalFrames = TOTAL_FRAMES
    /\ ~status.isGenerating

\* C22: handleGenerate captures the seed, description and direction of the
\* click; the calls of a generation are made for the indices 1, 2, ... in
\* this order, each index once and at most TOTAL_FRAMES of them, whether or
\* not earlier calls have completed; and every call carries TOTAL_FRAMES and
\* the seed, description and direction of the click, whatever they are when
\* the call is made.
C22_RequestsInOrderWithCapturedInputs ==
    [][/\ handleGenerate =>
             /\ ops'[nextOp].seed = originalImage
             /\ ops'[nextOp].description = promptDescription
             /\ ops'[nextOp].direction = selectedDirection
             /\ launch'[nextOp] = <<>>
       /\ \A o \in OpIds :
             /\ Len(launch'[o]) <= TOTAL_FRAMES
             /\ \A k \in 1..Len(launch'[o]) :
                   /\ launch'[o][k].frameIndex = k
                   /\ launch'[o][k].totalFrames = TOTAL_FRAMES
                   /\ launch'[o][k].base64Image = ops'[o].seed
                   /\ launch'[o][k].description = ops'[o].description
                   /\ launch'[o][k].direction = ops'[o].direction
             /\ ops[o].kind = "gen" =>
                   /\ ops'[o].seed = ops[o].seed
                   /\ ops'[o].description = ops[o].description
                   /\ ops'[o].direction = ops[o].direction
                   /\ SubSeq(launch'[o], 1, Len(launch[o])) = launch[o]
             /\ \A i \in 1..TOTAL_FRAMES :
                   (i \in Launched(o)' /\ i \notin Launched(o)) =>
                      \A j \in 1..(i - 1) : j \in Launched(o)]_vars

\* C22 witness: all TOTAL_FRAMES calls of a generation were made while none
\* had completed, the last ones after the user had replaced the seed, the
\* description and the direction.
C22_Witness ==
    \E o \in OpIds :
        /\ ops[o].kind = "gen"
        /\ Len(launch[o]) = TOTAL_FRAMES
        /\ \A k \in 1..TOTAL_FRAMES : ops[o].req[k] = "pending"
        /\ originalImage # ops[o].seed
        /\ promptDescription # ops[o].description
        /\ selectedDirection # ops[o].direction
        /\ launch[o][TOTAL_FRAMES].base64Image = ops[o].seed

\* C23: at most one interval is set at any time, and one is set only while
\* the player is displayed and playing a sequence of more than one frame; a
\* tick of the interval of the current render advances the index by 1 modulo
\* the length of the sequence; a tick changes the index only if the player is
\* playing and the interval is the one of the current render and sequence.
C23_OneTimerWhilePlaying ==
    [][/\ player'.timers <= 1
       /\ player'.timers = (IF player'.interval > 0 THEN 1 ELSE 0)
       /\ player'.interval > 0 =>
             /\ Len(generatedFrames') > 1
             /\ player'.isPlaying
       /\ TimerTick =>
             /\ player.effects = "none" =>
                   player'.currentIndex =
                      (player.currentIndex + 1) % Len(generatedFrames)
             /\ player'.currentIndex # player.currentIndex =>
                   /\ player.isPlaying
                   /\ player.effects = "none"
                   /\ player.interval = Len(generatedFrames)]_vars

\* C23 witness: the sequence was replaced while the player was playing on a
\* later frame, the interval of the previous render has fired since, and the
\* index is the one the replacement found.
C23_Witness ==
    /\ PlayerMounted
    /\ player.last = "tick"
    /\ player.effects = "frames"
    /\ player.wasPlaying
    /\ player.wasIndex > 0
    /\ player.currentIndex = player.wasIndex
    /\ player.timers = 1

\* C24: when openSelectKey rejects, after a check that found no key,
\* handleUpscale ends: the step leaves the displayed sequence, the status and
\* isUpscaling as they are and the invocation, which has issued no request,
\* never does anything more; and an invocation that is still in the
\* credential check has issued no request.
C24_KeySelectionFailureEndsUpscale ==
    [][\A o \in OpIds :
         /\ UpscaleKeySelectFailed(o) =>
               /\ generatedFrames' = generatedFrames
               /\ status' = status
               /\ isUpscaling' = isUpscaling
               /\ alerts' = alerts
               /\ ops'[o].stage = "done"
               /\ ops'[o].req = <<>>
         /\ (ops[o].kind = "up" /\ ops[o].stage = "done" /\ ops[o].req = <<>>
               /\ ~ops[o].rejected) => ops'[o] = ops[o]
         /\ (ops'[o].kind = "up" /\ ops'[o].stage \in {"hasKey", "selectKey"})
               => ops'[o].req = <<>>
         /\ (ops[o].kind = "up" /\ ops[o].req = <<>> /\ ops'[o].req # <<>>)
               => ops[o].stage = "probe"]_vars

\* C24 witness: an upscale ended at the key selection: no request, no alert,
\* the generated sequence still displayed and isUpscaling false.
C24_Witness ==
    \E o \in OpIds :
        /\ ops[o].kind = "up"
        /\ ops[o].stage = "done"
        /\ ~ops[o].rejected
        /\ ops[o].req = <<>>
        /\ generatedFrames = ops[o].frames
        /\ Len(generatedFrames) = TOTAL_FRAMES + 1
        /\ ~isUpscaling
        /\ alerts = <<>>

\* C25: in every state 0 <= completedFrames <= totalFrames.
C25_CompletedWithinTotal ==
    /\ 0 <= status.completedFrames
    /\ status.completedFrames <= status.totalFrames

\* C26: when every outstanding request, load and recorder event settles,
\* isGenerating, isUpscaling and isDownloading, once true, each become false
\* again.
C26_FlagsEventuallyCleared ==
    /\ status.isGenerating ~> ~status.isGenerating
    /\ isUpscaling ~> ~isUpscaling
    /\ isDownloading ~> ~isDownloading

\* C26 witness: a generation has ended and a video export of its sequence
\* has failed on a frame after the recorder was started; the flags are
\* false.
C26_Witness ==
    /\ \E o \in OpIds : ops[o].kind = "gen" /\ ops[o].stage = "done"
    /\ \E o \in OpIds :
          /\ ops[o].kind = "video"
          /\ ops[o].stage = "done"
          /\ ops[o].rejected
          /\ ops[o].recorder # "none"
    /\ ~status.isGenerating
    /\ ~isUpscaling
    /\ ~isDownloading

\* C27: whenever a video export has ended and isDownloading is false, the
\* recorder that export started is not recording any more.
C27_NoRecorderLeftRecording ==
    \A o \in OpIds :
        (ops[o].kind = "video" /\ ops[o].stage = "done" /\ ~isDownloading)
            => ops[o].recorder # "recording"

\* a handler was invoked in this step, as invocation o
Invoked(o, kind) ==
    /\ ops[o].kind = "none"
    /\ ops'[o].kind = kind

\* C28: handleGenerate invoked with no seed image, and handleUpscale,
\* handleDownloadVideo and handleDownloadZip invoked with an empty displayed
\* sequence, issue no request and leave the seed, the displayed sequence, the
\* status, isUpscaling and isDownloading unchanged.
C28_NoInputNoEffect ==
    [][\A o \in OpIds :
          (\/ Invoked(o, "gen") /\ originalImage = NoImage
           \/ /\ \E kind \in {"up", "video", "zip"} : Invoked(o, kind)
              /\ Len(generatedFrames) = 0)
          => /\ ops'[o].req = <<>>
             /\ ops'[o].stage = "returned"
             /\ UNCHANGED <<originalImage, generatedFrames, status,
                            isUpscaling, isDownloading>>]_vars

\* handleGenerate has been invoked with no seed image and another handler
\* with an empty displayed sequence
C28_Witness ==
    /\ \E o \in OpIds : ops[o].kind = "gen" /\ ops[o].stage = "returned"
    /\ \E o \in OpIds : ops[o].kind # "gen" /\ ops[o].stage = "returned"

====
